---- MODULE Spec2Model ----
(***************************************************************************)
(* Model of src/main.ts: the Deno.serve request handler of the movie       *)
(* catalogue (route dispatch, cookie authentication, key-value store).     *)
(*                                                                         *)
(* Strings are sequences of atoms: a pathname such as "/admin/edit/u1" is  *)
(* <<"/", "admin", "/", "edit", "/", "u1">>, so that startsWith, === and   *)
(* the URLPattern matches are computed on the text and not looked up.      *)
(* A screenshots field is a sequence of one-character atoms.               *)
(***************************************************************************)
EXTENDS Integers, Sequences, FiniteSets, TLC

VARIABLES
    env,        \* the process environment read with Deno.env.get
    kv,         \* the store: the entries under ["movies", id]
    generated,  \* the values crypto.randomUUID() has returned
    deleted,    \* the ids a request with an auth cookie has deleted
    jar,        \* the auth cookie the client holds (set by login, cleared by logout)
    req,        \* the request being answered, NoRequest between requests
    resp,       \* the response to req
    tasks,      \* the concurrent invocations of the edit handler
    writes      \* the order in which those invocations' kv.set calls took effect

vars == <<env, kv, generated, deleted, jar, req, resp, tasks, writes>>

----------------------------------------------------------------------------
(* Bounds *)

\* number of values crypto.randomUUID() can still hand out in one run
MaxUUID == 1

\* longest screenshots form field drawn for POST /admin/add
MaxLen == 3

----------------------------------------------------------------------------
(* JavaScript values *)

\* null, as returned by FormData.get for a missing field
Null == <<"<null>">>

\* undefined, as returned by Deno.env.get for an unset variable and by
\* getCookies(...).auth when the request has no auth cookie
Undefined == <<"<undefined>">>

\* the empty string
Empty == <<>>

\* a === b on strings, null and undefined
StrictEq(a, b) == a = b

\* JavaScript truthiness of a string | null | undefined
Truthy(s) == s # Empty /\ s # Null /\ s # Undefined

----------------------------------------------------------------------------
(* Pathnames *)

Root == <<"/">>
Admin == <<"/", "admin">>
AdminLogin == <<"/", "admin", "/", "login">>
LogoutPath == <<"/", "logout">>
AdminAdd == <<"/", "admin", "/", "add">>
Administrator == <<"/", "admin", "istrator">>
AdminNope == <<"/", "admin", "/", "nope">>
OtherPath == <<"/", "other">>
LoginError == <<"/", "admin", "/", "login", "?error=1">>

MoviePath(id) == <<"/", "movie", "/">> \o id
EditPath(id) == <<"/", "admin", "/", "edit", "/">> \o id
DeletePath(id) == <<"/", "admin", "/", "delete", "/">> \o id

\* String.prototype.startsWith
StartsWith(s, prefix) ==
    /\ Len(s) >= Len(prefix)
    /\ SubSeq(s, 1, Len(prefix)) = prefix

\* a pattern test that accepts anything after the prefix
PatternTestPrefix(prefix, pathname) ==
    /\ StartsWith(pathname, prefix)
    /\ Len(pathname) > Len(prefix)

\* new URLPattern({ pathname: prefix + ":id" }).test(url): the prefix, then
\* one segment of at least one character and no "/"
PatternTest(prefix, pathname) ==
    /\ StartsWith(pathname, prefix)
    /\ Len(pathname) > Len(prefix)
    /\ \A i \in (Len(prefix) + 1)..Len(pathname) : pathname[i] # "/"

\* pattern.exec(url)!.pathname.groups.id
PatternId(prefix, pathname) == SubSeq(pathname, Len(prefix) + 1, Len(pathname))

MoviePrefix == <<"/", "movie", "/">>
EditPrefix == <<"/", "admin", "/", "edit", "/">>
DeletePrefix == <<"/", "admin", "/", "delete", "/">>

----------------------------------------------------------------------------
(* Identifiers *)

UUIDNames == <<"u1", "u2", "u3", "u4", "u5">>

\* the values crypto.randomUUID() can return in one run
UUIDs == {<<UUIDNames[i]>> : i \in 1..MaxUUID}

\* an identifier a client made up; no randomUUID call returns it
ForeignId == <<"x">>

AllIds == UUIDs \cup {ForeignId}

\* position of a key in the store's key order (byte order of the strings)
IdRank(id) ==
    IF id = ForeignId THEN MaxUUID + 1
    ELSE CHOOSE i \in 1..MaxUUID : id = <<UUIDNames[i]>>

----------------------------------------------------------------------------
(* Form fields *)

RECURSIVE SplitFrom(_, _, _, _)
SplitFrom(s, i, cur, acc) ==
    IF i > Len(s) THEN Append(acc, cur)
    ELSE IF s[i] = "," THEN SplitFrom(s, i + 1, <<>>, Append(acc, cur))
    ELSE SplitFrom(s, i + 1, Append(cur, s[i]), acc)

\* s.split(',')
Split(s) == SplitFrom(s, 1, <<>>, <<>>)

RECURSIVE TrimStart(_)
TrimStart(s) ==
    IF s # <<>> /\ Head(s) = " " THEN TrimStart(Tail(s)) ELSE s

RECURSIVE TrimEnd(_)
TrimEnd(s) ==
    IF s # <<>> /\ s[Len(s)] = " " THEN TrimEnd(SubSeq(s, 1, Len(s) - 1)) ELSE s

\* s.trim()
Trim(s) == TrimEnd(TrimStart(s))

\* list.map(s => s.trim())
MapTrim(list) == [i \in 1..Len(list) |-> Trim(list[i])]

RECURSIVE FilterTruthy(_)
\* list.filter(s => s)
FilterTruthy(list) ==
    IF list = <<>> THEN <<>>
    ELSE IF Truthy(Head(list)) THEN <<Head(list)>> \o FilterTruthy(Tail(list))
    ELSE FilterTruthy(Tail(list))

\* the screenshots parse without the trim
ParseNoTrim(field) ==
    IF field = Null \/ field = Undefined THEN <<>>
    ELSE FilterTruthy(Split(field))

\* (form.get("screenshots") as string)?.split(',').map(s => s.trim()).filter(s => s) || []
ParseScreenshots(field) ==
    IF field = Null \/ field = Undefined THEN <<>>
    ELSE FilterTruthy(MapTrim(Split(field)))

\* the Movie object literal of the add and edit handlers
BuildMovie(id, form) ==
    [id |-> id,
     title |-> form.title,
     poster |-> form.poster,
     review |-> form.review,
     screenshots |-> ParseScreenshots(form.screenshots),
     downloadUrl |-> form.downloadUrl]

----------------------------------------------------------------------------
(* Key-value store: a function from the keys that have an entry *)

\* (await kv.get(["movies", id])).value, as a list of zero or one record
KvGet(store, id) == IF id \in DOMAIN store THEN <<store[id]>> ELSE <<>>

\* a set that writes only when the key has no entry
KvSetIfAbsent(store, id, movie) ==
    IF id \in DOMAIN store THEN store
    ELSE [k \in DOMAIN store \cup {id} |-> IF k = id THEN movie ELSE store[k]]

\* a set that merges into the entry it finds: the screenshots of an existing
\* record survive the write
KvSetMerge(store, id, movie) ==
    [k \in DOMAIN store \cup {id} |->
        IF k # id THEN store[k]
        ELSE IF id \in DOMAIN store
             THEN [movie EXCEPT !.screenshots = store[id].screenshots]
             ELSE movie]

\* kv.set(["movies", id], movie)
KvSet(store, id, movie) ==
    [k \in DOMAIN store \cup {id} |-> IF k = id THEN movie ELSE store[k]]

\* a delete that empties the store when the key has no entry
KvDeleteOrClear(store, id) ==
    IF id \in DOMAIN store THEN [k \in DOMAIN store \ {id} |-> store[k]] ELSE <<>>

\* kv.delete(["movies", id])
KvDelete(store, id) == [k \in DOMAIN store \ {id} |-> store[k]]

RECURSIVE ListFrom(_, _)
ListFrom(store, rank) ==
    IF rank > MaxUUID + 1 THEN <<>>
    ELSE LET here == {k \in DOMAIN store : IdRank(k) = rank}
         IN (IF here = {} THEN <<>> ELSE <<store[CHOOSE k \in here : TRUE]>>)
            \o ListFrom(store, rank + 1)

\* kv.list({ prefix: ["movies"] }): every record, in key order
KvList(store) == ListFrom(store, 1)

\* movies.reverse()
Reverse(list) == [i \in 1..Len(list) |-> list[Len(list) + 1 - i]]

----------------------------------------------------------------------------
(* Responses *)

NoHeader == <<>>

Response(status, body, location, setCookie, movies) ==
    [status |-> status, body |-> body, location |-> location,
     setCookie |-> setCookie, movies |-> movies]

\* HtmlResponse(body, title)
HtmlResponse(page, movies) == Response(200, page, NoHeader, <<>>, movies)

\* new Response(text, { status })
TextResponse(status, text) == Response(status, text, NoHeader, <<>>, <<>>)

\* new Response(null, { status: 303, headers: { location } })
Redirect(location) == Response(303, "", location, <<>>, <<>>)

\* seconds: maxAge: 60 * 60 * 24
CookieMaxAge == 86400

\* setCookie(headers, { name: "auth", value, maxAge: 60 * 60 * 24, path: "/" })
AuthCookie(value) ==
    [name |-> "auth", value |-> value, maxAge |-> CookieMaxAge, expired |-> FALSE]

\* deleteCookie(headers, "auth", { path: "/" }): an empty, expired cookie
DeletedCookie == [name |-> "auth", value |-> Empty, maxAge |-> 0, expired |-> TRUE]

----------------------------------------------------------------------------
(* Environment and requests *)

SecretValue == <<"s3cret">>
WrongValue == <<"wrong">>
AdminName == <<"admin">>
AdminPass == <<"pw">>

\* process environments: each variable set or unset
Envs ==
    [SECRET_COOKIE_VALUE : {Undefined, Empty, SecretValue},
     ADMIN_USERNAME : {AdminName},
     ADMIN_PASSWORD : {AdminPass}]
    \cup
    [SECRET_COOKIE_VALUE : {Undefined, SecretValue},
     ADMIN_USERNAME : {Undefined},
     ADMIN_PASSWORD : {Undefined}]

Methods == {"GET", "POST", "PUT"}

Form(username, password, title, poster, review, screenshots, downloadUrl) ==
    [username |-> username, password |-> password, title |-> title,
     poster |-> poster, review |-> review, screenshots |-> screenshots,
     downloadUrl |-> downloadUrl]

\* a body with none of the fields
EmptyForm == Form(Null, Null, Null, Null, Null, Null, Null)

LoginForm(u, p) == Form(u, p, Null, Null, Null, Null, Null)

LoginForms ==
    {LoginForm(AdminName, AdminPass), LoginForm(AdminName, WrongValue),
     LoginForm(WrongValue, AdminPass), EmptyForm}

MovieForm(t, p, r, s, d) == Form(Null, Null, t, p, r, s, d)

FormA == MovieForm(<<"T1">>, <<"P1">>, <<"R1">>, <<"a", ",", " ", "b">>, <<"D1">>)
FormB == MovieForm(<<"T2">>, <<"P2">>, <<"R2">>, Null, <<"D2">>)

MovieForms == {FormA, FormB}

Request(method, pathname, auth, form) ==
    [method |-> method, pathname |-> pathname, auth |-> auth, form |-> form]

\* the request before the first one
NoRequest == Request("", <<>>, Undefined, EmptyForm)
NoResponse == Response(0, "", NoHeader, <<>>, <<>>)

\* identifiers a client can put in a path: the ones the server has handed
\* out, and one of its own making
KnownIds == generated \cup {ForeignId}

FixedPaths ==
    {Root, Admin, AdminLogin, LogoutPath, AdminAdd, Administrator, AdminNope,
     OtherPath, MoviePath(ForeignId) \o <<"/">>}

Paths ==
    FixedPaths \cup {MoviePath(i) : i \in KnownIds}
    \cup {EditPath(i) : i \in KnownIds} \cup {DeletePath(i) : i \in KnownIds}

\* auth cookies a client can send: none, the secret, a wrong one, and the
\* one in its cookie jar
Cookies == {Undefined, SecretValue, WrongValue, jar}

\* bodies a client sends with a path
FormsFor(method, pathname) ==
    IF method # "POST" THEN {EmptyForm}
    ELSE IF pathname = AdminLogin THEN LoginForms
    ELSE IF pathname = AdminAdd \/ PatternTest(EditPrefix, pathname) THEN MovieForms
    ELSE {EmptyForm}

Requests ==
    {Request(m, p, c, f) : <<m, p, c, f>> \in
        {t \in Methods \X Paths \X Cookies \X (LoginForms \cup MovieForms) :
            t[4] \in FormsFor(t[1], t[2])}}

----------------------------------------------------------------------------
(* Authentication and dispatch *)

\* const isLoggedIn = auth === Deno.env.get("SECRET_COOKIE_VALUE")
IsLoggedIn(auth, e) == StrictEq(auth, e.SECRET_COOKIE_VALUE)

\* the credential check with || in the place of &&
CredentialsOkEither(form, e) ==
    \/ StrictEq(form.username, e.ADMIN_USERNAME)
    \/ StrictEq(form.password, e.ADMIN_PASSWORD)

\* form.get("username") === ADMIN_USERNAME && form.get("password") === ADMIN_PASSWORD
CredentialsOk(form, e) ==
    /\ StrictEq(form.username, e.ADMIN_USERNAME)
    /\ StrictEq(form.password, e.ADMIN_PASSWORD)

\* the chain of if statements of the handler, in source order
Route(r, e) ==
    IF r.pathname = Root /\ r.method = "GET" THEN "Home"
    ELSE IF PatternTest(MoviePrefix, r.pathname) /\ r.method = "GET" THEN "MovieDetail"
    ELSE IF r.pathname = AdminLogin /\ r.method = "GET" THEN "LoginGet"
    ELSE IF r.pathname = AdminLogin /\ r.method = "POST" THEN "LoginPost"
    ELSE IF r.pathname = LogoutPath THEN "Logout"
    ELSE IF StartsWith(r.pathname, Admin) /\ ~IsLoggedIn(r.auth, e) THEN "AdminGuard"
    ELSE IF r.pathname = Admin /\ r.method # "GET" THEN "AdminMethodNotAllowed"
    ELSE IF r.pathname = Admin THEN "AdminList"
    ELSE IF r.pathname = AdminAdd /\ r.method = "GET" THEN "AddGet"
    ELSE IF r.pathname = AdminAdd /\ r.method = "POST" THEN "AddPost"
    ELSE IF PatternTest(EditPrefix, r.pathname) /\ r.method = "GET" THEN "EditGet"
    ELSE IF PatternTest(EditPrefix, r.pathname) /\ r.method = "POST" THEN "EditPost"
    ELSE IF PatternTest(DeletePrefix, r.pathname) /\ r.method = "POST" THEN "Delete"
    ELSE "NotFound"

----------------------------------------------------------------------------
(* Handlers: one action per route, each the whole handler *)

Procs == {1, 2}

\* a concurrent handler invocation: its place in the handler, and its request,
\* Movie object and response once it has them (lists of zero or one)
IdleTask == [pc |-> "idle", req |-> <<>>, movie |-> <<>>, resp |-> <<>>]

Init ==
    /\ env \in Envs
    /\ kv = <<>>
    /\ generated = {}
    /\ deleted = {}
    /\ jar = Undefined
    /\ req = NoRequest
    /\ resp = NoResponse
    /\ tasks = [p \in Procs |-> IdleTask]
    /\ writes = <<>>

\* the values crypto.randomUUID() has not returned yet
Fresh == UUIDs \ generated

\* the requests the server can take now: none while one is being answered
Incoming == IF req = NoRequest THEN Requests ELSE {}

\* the server takes request r and the handler's chain of ifs reaches route
Dispatch(r, route) ==
    /\ req = NoRequest
    /\ Route(r, env) = route

\* a handler that reads the store at most, and answers
Answer(r, response) ==
    /\ req' = r
    /\ resp' = response
    /\ UNCHANGED <<env, kv, generated, deleted, jar, tasks, writes>>

\* GET /
Home(r) ==
    /\ Dispatch(r, "Home")
    /\ Answer(r, HtmlResponse("All Movies", Reverse(KvList(kv))))

\* the detail page without the check for a missing record
MovieDetailUnchecked(store, id) == HtmlResponse("Movie", KvGet(store, id))

\* the response of GET /movie/:id
MovieDetailResponse(store, id) ==
    LET result == KvGet(store, id)
    IN IF result = <<>> THEN TextResponse(404, "Movie not found")
       ELSE HtmlResponse("Movie", result)

\* GET /movie/:id
MovieDetail(r) ==
    /\ Dispatch(r, "MovieDetail")
    /\ Answer(r, MovieDetailResponse(kv, PatternId(MoviePrefix, r.pathname)))

\* GET /admin/login
LoginGet(r) ==
    /\ Dispatch(r, "LoginGet")
    /\ Answer(r, HtmlResponse("Admin Login", <<>>))

\* Deno.env.get("SECRET_COOKIE_VALUE") || crypto.randomUUID()
LoginSecrets(e) ==
    IF Truthy(e.SECRET_COOKIE_VALUE) THEN {e.SECRET_COOKIE_VALUE} ELSE Fresh

\* POST /admin/login
LoginPost(r) ==
    /\ Dispatch(r, "LoginPost")
    /\ req' = r
    /\ IF CredentialsOk(r.form, env)
       THEN \E secret \in LoginSecrets(env) :
               /\ resp' = Response(303, "", Admin, <<AuthCookie(secret)>>, <<>>)
               /\ generated' = generated \cup ({secret} \cap UUIDs)
               /\ jar' = secret
       ELSE /\ resp' = Redirect(LoginError)
            /\ UNCHANGED <<generated, jar>>
    /\ UNCHANGED <<env, kv, deleted, tasks, writes>>

\* any method /logout
Logout(r) ==
    /\ Dispatch(r, "Logout")
    /\ req' = r
    /\ resp' = Response(303, "", AdminLogin, <<DeletedCookie>>, <<>>)
    /\ jar' = Undefined
    /\ UNCHANGED <<env, kv, generated, deleted, tasks, writes>>

\* pathname.startsWith("/admin") && !isLoggedIn
AdminGuard(r) ==
    /\ Dispatch(r, "AdminGuard")
    /\ Answer(r, Redirect(AdminLogin))

\* /admin with a method other than GET
AdminMethodNotAllowed(r) ==
    /\ Dispatch(r, "AdminMethodNotAllowed")
    /\ Answer(r, TextResponse(405, "Method Not Allowed"))

\* GET /admin
AdminList(r) ==
    /\ Dispatch(r, "AdminList")
    /\ Answer(r, HtmlResponse("Admin Dashboard", Reverse(KvList(kv))))

\* GET /admin/add
AddGet(r) ==
    /\ Dispatch(r, "AddGet")
    /\ Answer(r, HtmlResponse("Add New Movie", <<>>))

\* POST /admin/add
AddPost(r) ==
    /\ Dispatch(r, "AddPost")
    /\ \E id \in Fresh :
          /\ kv' = KvSet(kv, id, BuildMovie(id, r.form))
          /\ generated' = generated \cup {id}
    /\ req' = r
    /\ resp' = Redirect(Admin)
    /\ UNCHANGED <<env, deleted, jar, tasks, writes>>

\* the response of GET /admin/edit/:id
EditGetResponse(store, id) ==
    LET movie == KvGet(store, id)
    IN IF movie = <<>> THEN TextResponse(404, "Not Found")
       ELSE HtmlResponse("Edit", movie)

\* GET /admin/edit/:id
EditGet(r) ==
    /\ Dispatch(r, "EditGet")
    /\ Answer(r, EditGetResponse(kv, PatternId(EditPrefix, r.pathname)))

\* POST /admin/edit/:id
EditPost(r) ==
    /\ Dispatch(r, "EditPost")
    /\ LET id == PatternId(EditPrefix, r.pathname)
       IN kv' = KvSet(kv, id, BuildMovie(id, r.form))
    /\ req' = r
    /\ resp' = Redirect(Admin)
    /\ UNCHANGED <<env, generated, deleted, jar, tasks, writes>>

\* POST /admin/delete/:id
Delete(r) ==
    /\ Dispatch(r, "Delete")
    /\ LET id == PatternId(DeletePrefix, r.pathname)
       IN /\ kv' = KvDelete(kv, id)
          /\ deleted' = IF r.auth # Undefined THEN deleted \cup {id} ELSE deleted
    /\ req' = r
    /\ resp' = Redirect(Admin)
    /\ UNCHANGED <<env, generated, jar, tasks, writes>>

\* return new Response("404: Page not found", { status: 404 })
NotFound(r) ==
    /\ Dispatch(r, "NotFound")
    /\ Answer(r, TextResponse(404, "404: Page not found"))

\* the response has been sent: the server waits for the next request
Finish ==
    /\ req # NoRequest
    /\ req' = NoRequest
    /\ resp' = NoResponse
    /\ UNCHANGED <<env, kv, generated, deleted, jar, tasks, writes>>

Next ==
    \/ Finish
    \/ \E r \in Incoming : Home(r)
    \/ \E r \in Incoming : MovieDetail(r)
    \/ \E r \in Incoming : LoginGet(r)
    \/ \E r \in Incoming : LoginPost(r)
    \/ \E r \in Incoming : Logout(r)
    \/ \E r \in Incoming : AdminGuard(r)
    \/ \E r \in Incoming : AdminMethodNotAllowed(r)
    \/ \E r \in Incoming : AdminList(r)
    \/ \E r \in Incoming : AddGet(r)
    \/ \E r \in Incoming : AddPost(r)
    \/ \E r \in Incoming : EditGet(r)
    \/ \E r \in Incoming : EditPost(r)
    \/ \E r \in Incoming : Delete(r)
    \/ \E r \in Incoming : NotFound(r)

Spec == Init /\ [][Next]_vars

----------------------------------------------------------------------------
(* The add form: every screenshots field up to MaxLen characters *)

Chars == {"a", ",", " "}

RECURSIVE Strings(_)
\* the strings of at most n characters
Strings(n) ==
    IF n = 0 THEN {<<>>}
    ELSE LET shorter == Strings(n - 1)
         IN shorter \cup {Append(s, c) : s \in shorter, c \in Chars}

AddForms ==
    {MovieForm(<<"T1">>, <<"P1">>, <<"R1">>, s, <<"D1">>) : s \in Strings(MaxLen)}
    \cup {MovieForm(Null, <<"P2">>, <<"R2">>, Null, <<"D2">>)}

AddRequests ==
    {Request("POST", AdminAdd, c, f) : c \in {Undefined, SecretValue}, f \in AddForms}
    \cup {Request("GET", MoviePath(i), Undefined, EmptyForm) : i \in KnownIds}
    \cup {Request("POST", EditPath(ForeignId), SecretValue, FormB)}

IncomingAdd == IF req = NoRequest THEN AddRequests ELSE {}

NextAdd ==
    \/ Finish
    \/ \E r \in IncomingAdd : AddPost(r)
    \/ \E r \in IncomingAdd : MovieDetail(r)
    \/ \E r \in IncomingAdd : EditPost(r)
    \/ \E r \in IncomingAdd : AdminGuard(r)

SpecAdd == Init /\ [][NextAdd]_vars

----------------------------------------------------------------------------
(* Two POST /admin/edit/:id handlers running at once.  A handler gives up  *)
(* control at its awaits: await req.formData(), then await kv.set(...).    *)

EditRequests ==
    {Request("POST", EditPath(i), c, f) : i \in KnownIds, c \in Cookies, f \in MovieForms}

\* the handler starts, passes the login check and waits for the form
EditBegin(p, r) ==
    /\ tasks[p].pc = "idle"
    /\ Route(r, env) = "EditPost"
    /\ tasks' = [tasks EXCEPT ![p] = [pc |-> "formData", req |-> <<r>>,
                                       movie |-> <<>>, resp |-> <<>>]]
    /\ UNCHANGED <<env, kv, generated, deleted, jar, req, resp, writes>>

\* the form has arrived: the handler builds the Movie and calls kv.set
EditBuild(p) ==
    /\ tasks[p].pc = "formData"
    /\ LET r == tasks[p].req[1]
           id == PatternId(EditPrefix, r.pathname)
       IN tasks' = [tasks EXCEPT ![p].pc = "set",
                                 ![p].movie = <<BuildMovie(id, r.form)>>]
    /\ UNCHANGED <<env, kv, generated, deleted, jar, req, resp, writes>>

\* the store performs the write
EditSet(p) ==
    /\ tasks[p].pc = "set"
    /\ LET movie == tasks[p].movie[1]
       IN kv' = KvSet(kv, movie.id, movie)
    /\ writes' = Append(writes, p)
    /\ tasks' = [tasks EXCEPT ![p].pc = "respond"]
    /\ UNCHANGED <<env, generated, deleted, jar, req, resp>>

\* the handler resumes after kv.set and returns its response
EditRespond(p) ==
    /\ tasks[p].pc = "respond"
    /\ tasks' = [tasks EXCEPT ![p].pc = "done", ![p].resp = <<Redirect(Admin)>>]
    /\ UNCHANGED <<env, kv, generated, deleted, jar, req, resp, writes>>

NextRace ==
    \/ Finish
    \/ \E r \in Incoming : AddPost(r)
    \/ \E p \in Procs : \E r \in EditRequests : EditBegin(p, r)
    \/ \E p \in Procs : EditBuild(p)
    \/ \E p \in Procs : EditSet(p)
    \/ \E p \in Procs : EditRespond(p)

SpecRace == Init /\ [][NextRace]_vars

----------------------------------------------------------------------------
(* Vocabulary of the properties *)

\* the step handles request req' (the server was waiting)
Handles == req = NoRequest /\ req' # NoRequest

\* the request carries an auth cookie and it is the configured secret
CookieIsSecret(r) == r.auth # Undefined /\ r.auth = env.SECRET_COOKIE_VALUE

\* the path is /admin/login or some other path under the /admin prefix
UnderAdmin(pathname) ==
    /\ Len(pathname) >= 2
    /\ pathname[1] = "/"
    /\ pathname[2] = "admin"

GenericNotFound == TextResponse(404, "404: Page not found")

\* the items of a comma-separated field, stated on positions: the pieces
\* between consecutive commas, each cut down to its first and last
\* character that is not a space, the pieces with no such character left out
Cuts(s) == {0, Len(s) + 1} \cup {i \in 1..Len(s) : s[i] = ","}
NextCut(s, a) == CHOOSE b \in Cuts(s) : b > a /\ \A c \in Cuts(s) : c > a => b <= c
Inked(s, a) == {i \in (a + 1)..(NextCut(s, a) - 1) : s[i] # " "}
Kept(s) == {a \in Cuts(s) : a <= Len(s) /\ Inked(s, a) # {}}
ItemAt(s, a) ==
    LET lo == CHOOSE i \in Inked(s, a) : \A j \in Inked(s, a) : i <= j
        hi == CHOOSE i \in Inked(s, a) : \A j \in Inked(s, a) : j <= i
    IN [i \in 1..(hi - lo + 1) |-> s[lo + i - 1]]
ItemsOf(field) ==
    IF field = Null THEN <<>>
    ELSE [n \in 1..Cardinality(Kept(field)) |->
            ItemAt(field, CHOOSE a \in Kept(field) :
                            Cardinality({b \in Kept(field) : b < a}) = n - 1)]

\* record m holds the fields of form f and nothing else
TakenFrom(m, f) ==
    /\ m.title = f.title
    /\ m.poster = f.poster
    /\ m.review = f.review
    /\ m.downloadUrl = f.downloadUrl
    /\ m.screenshots = ItemsOf(f.screenshots)

----------------------------------------------------------------------------
(* Authentication *)

\* C1: a request to a path under /admin other than /admin/login that has no
\* auth cookie, or one that is not the configured secret, is answered with
\* a 303 redirect to /admin/login, whatever the method and the environment.
C1_UnauthenticatedAdminRedirects ==
    (/\ req # NoRequest
     /\ UnderAdmin(req.pathname)
     /\ req.pathname # AdminLogin
     /\ ~CookieIsSecret(req))
    => resp = Redirect(AdminLogin)

\* C2: a POST /admin/login with the configured username and password is
\* answered 303 to /admin with a cookie named auth, and a later request to
\* an admin path that replays that cookie is not redirected to the login
\* page, whether SECRET_COOKIE_VALUE is set or not.
C2_LoginCookieGrantsAccess ==
    /\ (/\ req # NoRequest
        /\ req.method = "POST"
        /\ req.pathname = AdminLogin
        /\ req.form.username = env.ADMIN_USERNAME
        /\ req.form.password = env.ADMIN_PASSWORD)
       => (/\ resp.status = 303
           /\ resp.location = Admin
           /\ Len(resp.setCookie) = 1
           /\ resp.setCookie[1].name = "auth"
           /\ resp.setCookie[1].value = jar)
    /\ (/\ req # NoRequest
        /\ jar # Undefined
        /\ req.auth = jar
        /\ UnderAdmin(req.pathname))
       => resp # Redirect(AdminLogin)

\* C3: a POST /admin/login whose username or password is not the configured
\* one (a missing field and an unset variable included) is answered 303 to
\* /admin/login?error=1, sets no cookie and leaves the store as it was.
C3_BadLoginSetsNoCookie ==
    [][(/\ Handles
        /\ req'.method = "POST"
        /\ req'.pathname = AdminLogin
        /\ \/ req'.form.username # env.ADMIN_USERNAME
           \/ req'.form.password # env.ADMIN_PASSWORD)
       => (/\ resp'.status = 303
           /\ resp'.location = LoginError
           /\ resp'.setCookie = <<>>
           /\ jar' = jar
           /\ kv' = kv)]_vars

\* reached for C3: a login with no fields against an environment with no
\* credentials, turned away
C3_Witness ==
    /\ req.method = "POST"
    /\ req.pathname = AdminLogin
    /\ req.form = EmptyForm
    /\ env.ADMIN_USERNAME = Undefined
    /\ resp = Redirect(LoginError)

----------------------------------------------------------------------------
(* The store *)

\* C5: an authenticated POST /admin/edit/<id> on an identifier that has a
\* record leaves under <id> a record with that id and with every other
\* field taken from the submission; the set of identifiers is the same and
\* every other record is unchanged.
C5_EditReplacesRecord ==
    [][\A id \in AllIds :
        (/\ Handles
         /\ req'.method = "POST"
         /\ req'.pathname = EditPath(id)
         /\ CookieIsSecret(req')
         /\ id \in DOMAIN kv)
        => (/\ DOMAIN kv' = DOMAIN kv
            /\ kv'[id].id = id
            /\ TakenFrom(kv'[id], req'.form)
            /\ \A k \in DOMAIN kv \ {id} : kv'[k] = kv[k])]_vars

\* reached for C5: an edit has put form B over a record that had
\* screenshots, beside a record under another identifier
C5_Witness ==
    \E id \in UUIDs :
        /\ req.method = "POST"
        /\ req.pathname = EditPath(id)
        /\ CookieIsSecret(req)
        /\ req.form = FormB
        /\ resp = Redirect(Admin)
        /\ id \in DOMAIN kv
        /\ kv[id].screenshots = <<>>
        /\ DOMAIN kv # {id}

\* C6: once an authenticated POST /admin/delete/<id> has completed, <id>
\* never has a record again and GET /movie/<id> answers 404, whatever
\* requests follow.
C6_DeletedStaysDeleted ==
    \A id \in deleted :
        /\ id \notin DOMAIN kv
        /\ (req # NoRequest /\ req.method = "GET" /\ req.pathname = MoviePath(id))
           => resp.status = 404

\* C7: an authenticated POST /admin/delete/<id> for an identifier without a
\* record changes nothing in the store; with or without a record the answer
\* is 303 to /admin and <id> has no record afterwards, so that a second
\* delete of <id> leaves the store of the first.
C7_DeleteMissingIsNoOp ==
    [][\A id \in AllIds :
        (/\ Handles
         /\ req'.method = "POST"
         /\ req'.pathname = DeletePath(id)
         /\ CookieIsSecret(req'))
        => (/\ resp' = Redirect(Admin)
            /\ id \notin DOMAIN kv'
            /\ id \notin DOMAIN kv => kv' = kv)]_vars

\* reached for C7: a delete of an identifier that has no record, answered
\* 303, with another record in the store
C7_Witness ==
    /\ req.method = "POST"
    /\ req.pathname = DeletePath(ForeignId)
    /\ CookieIsSecret(req)
    /\ ForeignId \in deleted
    /\ resp = Redirect(Admin)
    /\ kv # <<>>

\* C8: GET /movie/<id> from any client, and GET /admin/edit/<id> from an
\* authenticated one, answer 404 when <id> has no record and 200 with the
\* record when it has one, and leave the store as it was.
C8_LookupNotFound ==
    [][\A id \in AllIds :
        (/\ Handles
         /\ req'.method = "GET"
         /\ \/ req'.pathname = MoviePath(id)
            \/ req'.pathname = EditPath(id) /\ CookieIsSecret(req'))
        => (/\ kv' = kv
            /\ id \notin DOMAIN kv => resp'.status = 404 /\ resp'.movies = <<>>
            /\ id \in DOMAIN kv => resp'.status = 200 /\ resp'.movies = <<kv[id]>>)]_vars

\* reached for C8: a lookup of an identifier without a record answered 404
\* while the store holds a record under another identifier
C8_Witness ==
    \E id \in AllIds :
        /\ req.method = "GET"
        /\ req.pathname = MoviePath(id)
        /\ id \notin DOMAIN kv
        /\ kv # <<>>
        /\ resp = TextResponse(404, "Movie not found")

----------------------------------------------------------------------------
(* Dispatch *)

\* the routes of the table of the HTTP surface
InTable(method, pathname) ==
    \/ method = "GET" /\ pathname = Root
    \/ method = "GET" /\ \E id \in AllIds : pathname = MoviePath(id)
    \/ method \in {"GET", "POST"} /\ pathname = AdminLogin
    \/ method = "GET" /\ pathname = LogoutPath
    \/ method = "GET" /\ pathname = Admin
    \/ method \in {"GET", "POST"} /\ pathname = AdminAdd
    \/ method \in {"GET", "POST"} /\ \E id \in AllIds : pathname = EditPath(id)
    \/ method = "POST" /\ \E id \in AllIds : pathname = DeletePath(id)

\* C9 as stated: every request that matches no route of the table is
\* answered with the generic 404 and leaves the store unchanged, for
\* logged-in and not-logged-in clients alike.
C9_UnmatchedIsNotFound ==
    [][(Handles /\ ~InTable(req'.method, req'.pathname))
       => (resp' = GenericNotFound /\ kv' = kv)]_vars

\* C9 as amended: a request that matches no route of the table leaves the
\* store unchanged and is answered: on /logout, whatever the method, with
\* the logout redirect; else on a path that starts with /admin, when its
\* auth cookie is not identical to SECRET_COOKIE_VALUE (no cookie and no
\* variable being identical), with 303 to /admin/login; else on /admin with
\* 405; else with the generic 404.
C9_UnmatchedAnswer ==
    [][(Handles /\ ~InTable(req'.method, req'.pathname))
       => (/\ kv' = kv
           /\ resp' =
                IF req'.pathname = LogoutPath
                THEN Response(303, "", AdminLogin, <<DeletedCookie>>, <<>>)
                ELSE IF UnderAdmin(req'.pathname)
                        /\ req'.auth # env.SECRET_COOKIE_VALUE
                THEN Redirect(AdminLogin)
                ELSE IF req'.pathname = Admin
                THEN TextResponse(405, "Method Not Allowed")
                ELSE GenericNotFound)]_vars

\* reached for C9: a request with the secret cookie and a method the login
\* route does not take, answered with the generic 404
C9_Witness ==
    /\ req.method = "PUT"
    /\ req.pathname = AdminLogin
    /\ CookieIsSecret(req)
    /\ resp = GenericNotFound

----------------------------------------------------------------------------
(* Add, and concurrent edits *)

\* C4: an authenticated POST /admin/add writes exactly one new record, under
\* an identifier that had none, with the submitted title, poster, review
\* and downloadUrl and with the items of the submitted screenshots field
\* (split on commas, trimmed, empty items dropped; none when the field is
\* absent); it answers 303 to /admin, and GET /movie/<that id> then returns
\* the record.
C4_AddStoresSubmission ==
    [][(/\ Handles
        /\ req'.method = "POST"
        /\ req'.pathname = AdminAdd
        /\ CookieIsSecret(req'))
       => (/\ resp' = Redirect(Admin)
           /\ \E id \in UUIDs :
                /\ id \notin DOMAIN kv
                /\ DOMAIN kv' = DOMAIN kv \cup {id}
                /\ \A k \in DOMAIN kv : kv'[k] = kv[k]
                /\ kv'[id].id = id
                /\ TakenFrom(kv'[id], req'.form)
                /\ MovieDetailResponse(kv', id) = HtmlResponse("Movie", <<kv'[id]>>))]_vars

\* reached for C4: an add, beside a record already in the store, whose
\* screenshots field needed the split, the trim and the removal of an empty
\* item
C4_Witness ==
    /\ req.method = "POST"
    /\ req.pathname = AdminAdd
    /\ CookieIsSecret(req)
    /\ req.form.screenshots = <<" ", "a", ",">>
    /\ resp = Redirect(Admin)
    /\ ForeignId \in DOMAIN kv
    /\ \E id \in DOMAIN kv : kv[id].screenshots = <<<<"a">>>>

\* both concurrent handlers have answered, and both were edits of id
BothDone(id) ==
    \A p \in Procs :
        /\ tasks[p].pc = "done"
        /\ tasks[p].req[1].pathname = EditPath(id)

\* C10: when two authenticated POST /admin/edit/<id> requests for the same
\* identifier run concurrently, the record finally stored under <id> is, in
\* every field, the submission of the request whose store write was last,
\* and both requests answer 303 to /admin.
C10_LastWriteWins ==
    \A id \in AllIds :
        BothDone(id)
        => LET last == tasks[writes[Len(writes)]]
           IN /\ kv[id].id = id
              /\ TakenFrom(kv[id], last.req[1].form)
              /\ \A p \in Procs : tasks[p].resp = <<Redirect(Admin)>>

\* reached for C10: two edits of one identifier with different forms, the
\* second handler's write first, the first handler's form in the store
C10_Witness ==
    \E id \in AllIds :
        /\ BothDone(id)
        /\ tasks[1].req[1].form = FormA
        /\ tasks[2].req[1].form = FormB
        /\ writes = <<2, 1>>
        /\ kv[id].title = FormA.title

\* ---------------------------------------------------------------------
\* Where records come from and which requests change the store
\* ---------------------------------------------------------------------

\* the request being handled in this step is a POST to /admin/add
HandlesAdd == Handles /\ req'.method = "POST" /\ req'.pathname = AdminAdd

\* the request being handled in this step is a POST to one of the three
\* writing routes: /admin/add, /admin/edit/<id>, /admin/delete/<id>
HandlesWrite ==
    /\ Handles
    /\ req'.method = "POST"
    /\ \/ req'.pathname = AdminAdd
       \/ \E id \in AllIds : req'.pathname \in {EditPath(id), DeletePath(id)}

\* C11: every identifier that has a record in the store was generated by
\* the server while handling a POST /admin/add: an identifier enters the
\* store only in a step that handles POST /admin/add and generates that
\* identifier in the same step; edit and delete introduce none.  Stated
\* for the requests that carry the configured secret as their cookie, the
\* ones the login check is there to admit.
C11_RecordsComeFromAdd ==
    [][(Handles /\ CookieIsSecret(req')) =>
          \A id \in (DOMAIN kv') \ (DOMAIN kv) :
              HandlesAdd /\ id \in generated' \ generated]_vars

\* C12: a request changes the stored records only if it is a POST to
\* /admin/add, /admin/edit/<id> or /admin/delete/<id> and its auth cookie
\* equals the configured secret; every other request leaves every stored
\* record unchanged.
C12_StoreChangesOnlyBehindLogin ==
    [][kv' # kv => HandlesWrite /\ CookieIsSecret(req')]_vars

====
